---- MODULE Spec2Model ----
(***************************************************************************)
(* Model of the QR menu ordering backend: the Node server                  *)
(* (server/routes.ts over MemStorage), the customer client's order         *)
(* placement, and the Go backend (go-backend/main.go).                     *)
(*                                                                         *)
(* Money is kept in integer cents: the decimal string "10.04" is 1004.     *)
(* Percent rates are whole numbers: the decimal string "10.00" is 10.      *)
(* Intermediate amounts of calculateOrderTotal are exact, in 1/10000 cent. *)
(* Time is in seconds.                                                     *)
(***************************************************************************)
EXTENDS Integers, Sequences, FiniteSets, TLC

\* ---------------------------------------------------------------- bounds
MaxOrders == 2
MaxNow == 1
MaxInbox == 1
MaxQty == 1
MaxCartLen == 1

\* ------------------------------------------------------------- constants
Undefined == "undefined"
Absent == -1
NullDate == -999999999
Day == 86400
FallbackServiceCharge == 10
FallbackGst == 5
MonthDays == 30
NotANumber == -2

ORDER_STATUSES == {"pending", "preparing", "ready", "completed", "cancelled"}
OrderTypes == {"dine-in", "takeaway"}
RestaurantIds == {1}
Sockets == {"ws1", "ws2"}
DashboardSockets == {"ws1"}
AdminClients == {"a1", "a2"}

\* The seeded menu: id, name and price of the items a cart can hold.
MenuItems ==
  { [id |-> 1, name |-> "Aloo Paratha", price |-> 1004],
    [id |-> 2, name |-> "Special Thali", price |-> 10000] }

\* ------------------------------------------------------------- variables
VARIABLES
  now,              \* the clock read by Date.now() / new Date()
  restaurants,      \* MemStorage.restaurants
  orders,           \* MemStorage.orders
  currentIdsOrder,  \* MemStorage.currentIds.order
  clients,          \* the Set<WebSocket> of routes.ts
  readyState,       \* readyState of every socket
  inbox,            \* frames sent to a socket and not yet read by its client
  clientRestaurant, \* the rates of the customer page's cached GET /api/restaurant/:id
  adminOrders,      \* every admin page's cached GET /api/restaurant/:id/orders
  res,              \* the HTTP response produced by this step
  goOrders,         \* go-backend: the orders table
  goNextId,         \* go-backend: the serial of the orders table
  goClients,        \* go-backend: the clients map
  goConn,           \* go-backend: the state of every websocket connection
  goInbox,          \* go-backend: frames written to a connection, not yet read
  goHub,            \* go-backend: the handleMessages goroutine
  goPc,             \* go-backend: where every request goroutine stands
  goLocal,          \* go-backend: the locals of every request goroutine
  goRes,            \* go-backend: the last response of every request goroutine
  goCrashed         \* go-backend: the runtime has aborted the process

nodeVars == << restaurants, orders, currentIdsOrder, clients, readyState,
               inbox, clientRestaurant, adminOrders, res >>

goVars == << goOrders, goNextId, goClients, goConn, goInbox, goHub, goPc,
             goLocal, goRes, goCrashed >>

vars == << now, nodeVars, goVars >>

NotLoaded == [loaded |-> FALSE]
GoConns == {"c1", "c2"}
GoDashboardConns == {"c1"}
GoHandlers == {"h1", "h2"}
HubIdle == [pc |-> "recv"]
NoLocal == [op |-> "none"]
NoRes == [op |-> "none", code |-> 0]

\* ---------------------------------------------------------- pure helpers
RECURSIVE SumSeq(_)
SumSeq(s) == IF s = << >> THEN 0 ELSE Head(s) + SumSeq(Tail(s))

\* Number.prototype.toFixed(2) of an exact amount given in 1/10000 cent:
\* the nearest cent, the larger one on a tie.
toFixed2(x) == (x + 5000) \div 10000

\* calculateOrderTotal: amounts in 1/10000 cent, from prices in cents.
calculateOrderTotal(items, serviceCharge, gst) ==
  LET subtotal == SumSeq([i \in 1..Len(items) |-> items[i].price * items[i].quantity])
      serviceChargeAmount == subtotal * serviceCharge * 100
      gstAmount == (subtotal * 100 + subtotal * serviceCharge) * gst
      total == subtotal * 10000 + serviceChargeAmount + gstAmount
  IN [ subtotal |-> subtotal * 10000,
       serviceChargeAmount |-> serviceChargeAmount,
       gstAmount |-> gstAmount,
       total |-> total ]

\* The carts a customer can build: distinct menu items, each with a quantity.
Carts ==
  { c \in UNION { [1..n -> [id : {m.id : m \in MenuItems},
                            name : {m.name : m \in MenuItems},
                            price : {m.price : m \in MenuItems},
                            quantity : 1..MaxQty]] : n \in 1..MaxCartLen } :
      /\ \A i \in 1..Len(c) : \E m \in MenuItems :
            m.id = c[i].id /\ m.name = c[i].name /\ m.price = c[i].price
      /\ \A i, j \in 1..Len(c) : i # j => c[i].id # c[j].id }

\* ------------------------------------------------------------------ Init
SeedRestaurant ==
  [ isActive |-> TRUE,
    subscriptionEndDate |-> 30 * Day,
    planType |-> "trial",
    serviceCharge |-> 10,
    gst |-> 5 ]

Init ==
  /\ now = 0
  /\ restaurants = [r \in RestaurantIds |-> SeedRestaurant]
  /\ orders = << >>
  /\ currentIdsOrder = 1
  /\ clients = {}
  /\ readyState = [ws \in Sockets |-> "NEW"]
  /\ inbox = [ws \in Sockets |-> << >>]
  /\ clientRestaurant = NotLoaded
  /\ adminOrders = [a \in AdminClients |-> << >>]
  /\ res = NoRes
  /\ goOrders = << >>
  /\ goNextId = 1
  /\ goClients = {}
  /\ goConn = [c \in GoConns |-> "NEW"]
  /\ goInbox = [c \in GoConns |-> << >>]
  /\ goHub = HubIdle
  /\ goPc = [h \in GoHandlers |-> "idle"]
  /\ goLocal = [h \in GoHandlers |-> NoLocal]
  /\ goRes = [h \in GoHandlers |-> NoRes]
  /\ goCrashed = FALSE

Tick ==
  /\ now < MaxNow
  /\ now' = now + 1
  /\ res' = NoRes
  /\ UNCHANGED << goVars, restaurants, orders, currentIdsOrder, clients, readyState,
                  inbox, clientRestaurant, adminOrders >>

\* ------------------------------------------------------ the broadcast hub
\* wss.on('connection'): the new socket is open and joins the set.
WsConnect(ws) ==
  /\ readyState[ws] = "NEW"
  /\ clients' = clients \cup {ws}
  /\ readyState' = [readyState EXCEPT ![ws] = "OPEN"]
  /\ res' = NoRes
  /\ UNCHANGED << goVars, now, restaurants, orders, currentIdsOrder, inbox,
                  clientRestaurant, adminOrders >>

\* The closing handshake has begun: the socket is no longer OPEN, its
\* 'close' event has not been dispatched yet.
WsClosing(ws) ==
  /\ readyState[ws] = "OPEN"
  /\ readyState' = [readyState EXCEPT ![ws] = "CLOSING"]
  /\ res' = NoRes
  /\ UNCHANGED << goVars, now, restaurants, orders, currentIdsOrder, clients, inbox,
                  clientRestaurant, adminOrders >>

\* ws.on('close'): the socket leaves the set; its unread frames go with it.
WsClose(ws) ==
  /\ readyState[ws] \in {"OPEN", "CLOSING"}
  /\ readyState' = [readyState EXCEPT ![ws] = "CLOSED"]
  /\ clients' = clients \ {ws}
  /\ inbox' = [inbox EXCEPT ![ws] = << >>]
  /\ res' = NoRes
  /\ UNCHANGED << goVars, now, restaurants, orders, currentIdsOrder,
                  clientRestaurant, adminOrders >>

\* The client at the other end reads the oldest frame.
WsReceive(ws) ==
  /\ inbox[ws] # << >>
  /\ inbox' = [inbox EXCEPT ![ws] = Tail(inbox[ws])]
  /\ res' = NoRes
  /\ UNCHANGED << goVars, now, restaurants, orders, currentIdsOrder, clients, readyState,
                  clientRestaurant, adminOrders >>

\* The frames a channel's transport holds unread before a further write to it
\* has to wait: the second socket and the second connection belong to a slow
\* reader, whose transport buffers one frame more.
SendBuffer(ch) == IF ch \in {"ws2", "c2"} THEN MaxInbox + 1 ELSE MaxInbox

\* Room for one more frame on every registered socket.
CanBroadcast == \A ws \in clients : Len(inbox[ws]) < SendBuffer(ws)

\* broadcast as it would be if it put the new frame ahead of the frames a
\* socket has not read yet.
broadcastNewestFirst(data) ==
  inbox' = [ws \in Sockets |->
              IF ws \in clients /\ readyState[ws] = "OPEN"
              THEN << data >> \o inbox[ws]
              ELSE inbox[ws]]

\* broadcast(data): one frame to every registered socket that is OPEN.
broadcast(data) ==
  inbox' = [ws \in Sockets |->
              IF ws \in clients /\ readyState[ws] = "OPEN"
              THEN Append(inbox[ws], data)
              ELSE inbox[ws]]

\* --------------------------------------------------------- order storage
\* insertOrderSchema.parse: restaurantId, orderType, items, subtotal and total
\* are required; status, tableNumber, serviceCharge and gst are optional.
insertOrderSchemaAccepts(body) ==
  body.subtotal # Absent /\ body.total # Absent

\* createOrder as it would be if it took the id of the order stored last.
createOrderReusingId(orderData) ==
  LET id == IF currentIdsOrder > 1 THEN currentIdsOrder - 1 ELSE currentIdsOrder IN
  [ id |-> id,
    restaurantId |-> orderData.restaurantId,
    orderNumber |-> [ms |-> now, suffix |-> id],
    tableNumber |-> IF orderData.tableNumber \in {"", Undefined}
                    THEN "null" ELSE orderData.tableNumber,
    orderType |-> orderData.orderType,
    status |-> IF orderData.status \in {"", Undefined}
               THEN "pending" ELSE orderData.status,
    items |-> orderData.items,
    subtotal |-> orderData.subtotal,
    serviceCharge |-> IF orderData.serviceCharge = Absent THEN 0
                      ELSE orderData.serviceCharge,
    gst |-> IF orderData.gst = Absent THEN 0 ELSE orderData.gst,
    total |-> orderData.total,
    createdAt |-> now,
    updatedAt |-> now ]

\* The answer of a lookup that finds no order.
NoOrder == [id |-> Absent]

\* MemStorage.getOrder
getOrder(id) == IF id \in DOMAIN orders THEN orders[id] ELSE NoOrder

\* MemStorage.getOrderByNumber: the first stored order with that number.
getOrderByNumber(orderNumber) ==
  LET found == {id \in DOMAIN orders : orders[id].orderNumber = orderNumber} IN
  IF found = {} THEN NoOrder
  ELSE orders[CHOOSE id \in found : \A other \in found : id <= other]

\* MemStorage.createOrder: the order built from the parsed body.
createOrder(orderData) ==
  LET id == currentIdsOrder IN
  [ id |-> id,
    restaurantId |-> orderData.restaurantId,
    orderNumber |-> [ms |-> now, suffix |-> id],
    tableNumber |-> IF orderData.tableNumber \in {"", Undefined}
                    THEN "null" ELSE orderData.tableNumber,
    orderType |-> orderData.orderType,
    status |-> IF orderData.status \in {"", Undefined}
               THEN "pending" ELSE orderData.status,
    items |-> orderData.items,
    subtotal |-> orderData.subtotal,
    serviceCharge |-> IF orderData.serviceCharge = Absent THEN 0
                      ELSE orderData.serviceCharge,
    gst |-> IF orderData.gst = Absent THEN 0 ELSE orderData.gst,
    total |-> orderData.total,
    createdAt |-> now,
    updatedAt |-> now ]

\* updateOrderStatus as it would be if it re-priced the order with the
\* restaurant's rates of the moment.
updateOrderStatusRepriced(order, status) ==
  LET r == restaurants[order.restaurantId]
      serviceCharge == toFixed2(order.subtotal * r.serviceCharge * 100)
      gst == toFixed2((order.subtotal * 100 + order.subtotal * r.serviceCharge) * r.gst)
  IN [order EXCEPT !.status = status, !.updatedAt = now,
                   !.serviceCharge = serviceCharge, !.gst = gst,
                   !.total = order.subtotal + serviceCharge + gst]

\* updateOrderStatus as it would be if it left updatedAt as it was.
updateOrderStatusKeepStamp(order, status) ==
  [order EXCEPT !.status = status]

\* MemStorage.updateOrderStatus: the stored order with the new status.
updateOrderStatus(order, status) ==
  [order EXCEPT !.status = status, !.updatedAt = now]

\* POST /api/orders
PostOrders(body) ==
  /\ CanBroadcast
  /\ IF ~insertOrderSchemaAccepts(body)
     THEN /\ res' = [op |-> "POST /api/orders", code |-> 400]
          /\ UNCHANGED << orders, currentIdsOrder, inbox >>
     ELSE LET order == createOrder(body) IN
          /\ currentIdsOrder <= MaxOrders
          /\ currentIdsOrder' = currentIdsOrder + 1
          /\ orders' = [i \in DOMAIN orders \cup {order.id} |->
                          IF i = order.id THEN order ELSE orders[i]]
          /\ broadcast([type |-> "NEW_ORDER", data |-> order])
          /\ res' = [op |-> "POST /api/orders", code |-> 201, data |-> order]
  /\ UNCHANGED << goVars, now, restaurants, clients, readyState, clientRestaurant, adminOrders >>

\* PATCH /api/orders/:id/status as it would be if it broadcast the requested
\* change without looking at what the store returned.
PatchOrderStatusNoLookup(id, status) ==
  /\ CanBroadcast
  /\ IF status \notin ORDER_STATUSES
     THEN /\ res' = [op |-> "PATCH /api/orders/:id/status", code |-> 400]
          /\ UNCHANGED << orders, inbox >>
     ELSE IF id \notin DOMAIN orders
     THEN /\ broadcast([type |-> "ORDER_STATUS_UPDATE", data |-> [id |-> id, status |-> status]])
          /\ res' = [op |-> "PATCH /api/orders/:id/status", code |-> 404]
          /\ UNCHANGED orders
     ELSE LET updated == updateOrderStatus(orders[id], status) IN
          /\ orders' = [orders EXCEPT ![id] = updated]
          /\ broadcast([type |-> "ORDER_STATUS_UPDATE", data |-> updated])
          /\ res' = [op |-> "PATCH /api/orders/:id/status", code |-> 200, data |-> updated]
  /\ UNCHANGED << goVars, now, restaurants, currentIdsOrder, clients, readyState,
                  clientRestaurant, adminOrders >>

\* PATCH /api/orders/:id/status
PatchOrderStatus(id, status) ==
  /\ CanBroadcast
  /\ IF status \notin ORDER_STATUSES
     THEN /\ res' = [op |-> "PATCH /api/orders/:id/status", code |-> 400]
          /\ UNCHANGED << orders, inbox >>
     ELSE IF id \notin DOMAIN orders
     THEN /\ res' = [op |-> "PATCH /api/orders/:id/status", code |-> 404]
          /\ UNCHANGED << orders, inbox >>
     ELSE LET updated == updateOrderStatus(orders[id], status) IN
          /\ orders' = [orders EXCEPT ![id] = updated]
          /\ broadcast([type |-> "ORDER_STATUS_UPDATE", data |-> updated])
          /\ res' = [op |-> "PATCH /api/orders/:id/status", code |-> 200, data |-> updated]
  /\ UNCHANGED << goVars, now, restaurants, currentIdsOrder, clients, readyState,
                  clientRestaurant, adminOrders >>

\* ---------------------------------------------------------- daily stats
\* The elements of a set of numbers as a sequence, smallest first: the order
\* in which the orders Map, filled under growing ids, lists its values.
RECURSIVE Ascending(_)
Ascending(S) ==
  IF S = {} THEN << >>
  ELSE LET least == CHOOSE x \in S : \A y \in S : x <= y
       IN << least >> \o Ascending(S \ {least})

\* MemStorage.getTodayOrders: the restaurant's orders created since the last
\* midnight, in the order of the Map.
getTodayOrders(restaurantId) ==
  LET today == (now \div Day) * Day
      ids == Ascending({id \in DOMAIN orders :
                          /\ orders[id].restaurantId = restaurantId
                          /\ orders[id].createdAt >= today})
  IN [i \in 1..Len(ids) |-> orders[ids[i]]]

\* sum + parseFloat(order.total): a total that parses to no number is
\* NotANumber, and a sum with NotANumber is NotANumber.
RECURSIVE sumTotals(_)
sumTotals(os) ==
  IF os = << >> THEN 0
  ELSE LET sum == sumTotals(SubSeq(os, 1, Len(os) - 1))
           total == os[Len(os)].total
       IN IF sum = NotANumber \/ total = NotANumber THEN NotANumber ELSE sum + total

\* The line items of a sequence of orders, in order.
RECURSIVE lineItems(_)
lineItems(os) ==
  IF os = << >> THEN << >> ELSE Head(os).items \o lineItems(Tail(os))

\* itemCounts: name and summed quantity, in the order the names were first
\* set in the Map.
RECURSIVE itemCounts(_)
itemCounts(lines) ==
  IF lines = << >> THEN << >>
  ELSE LET counts == itemCounts(SubSeq(lines, 1, Len(lines) - 1))
           item == lines[Len(lines)]
       IN IF \E i \in 1..Len(counts) : counts[i].name = item.name
          THEN [i \in 1..Len(counts) |->
                  IF counts[i].name = item.name
                  THEN [counts[i] EXCEPT !.count = @ + item.quantity]
                  ELSE counts[i]]
          ELSE Append(counts, [name |-> item.name, count |-> item.quantity])

\* Array.prototype.sort((a, b) => b.count - a.count): by count, largest
\* first; the sort is stable, so equal counts keep their order.
RECURSIVE sortByCountDesc(_)
sortByCountDesc(entries) ==
  IF entries = << >> THEN << >>
  ELSE LET sorted == sortByCountDesc(SubSeq(entries, 1, Len(entries) - 1))
           e == entries[Len(entries)]
           before == {i \in 1..Len(sorted) : sorted[i].count >= e.count}
           k == Cardinality(before)
       IN SubSeq(sorted, 1, k) \o << e >> \o SubSeq(sorted, k + 1, Len(sorted))

\* MemStorage.getTodayStats
getTodayStats(restaurantId) ==
  LET todayOrders == getTodayOrders(restaurantId)
      sorted == sortByCountDesc(itemCounts(lineItems(todayOrders)))
  IN [ orderCount |-> Len(todayOrders),
       revenue |-> sumTotals(todayOrders),
       avgPrepTime |-> 12,
       popularItems |-> SubSeq(sorted, 1, IF Len(sorted) < 3 THEN Len(sorted) ELSE 3) ]

\* GET /api/restaurant/:id/stats
GetStats(id) ==
  /\ res' = [op |-> "GET /api/restaurant/:id/stats", code |-> 200,
              data |-> getTodayStats(id)]
  /\ UNCHANGED << goVars, now, restaurants, orders, currentIdsOrder, clients,
                  readyState, inbox, clientRestaurant, adminOrders >>

\* Order bodies for the statistics: one or two line items, and a total that
\* is a number or a string that parses to none.
StatsBodies ==
  [ restaurantId : RestaurantIds,
    tableNumber : {"null"},
    orderType : {"takeaway"},
    status : {Undefined},
    items : { << [id |-> 2, name |-> "Special Thali", price |-> 10000,
                  quantity |-> 1, total |-> 10000] >>,
              << [id |-> 1, name |-> "Aloo Paratha", price |-> 1004,
                  quantity |-> 1, total |-> 1004],
                 [id |-> 2, name |-> "Special Thali", price |-> 10000,
                  quantity |-> 2, total |-> 20000] >> },
    subtotal : {10000},
    serviceCharge : {Absent},
    gst : {Absent},
    total : {10000, NotANumber} ]

\* ----------------------------------------------------------- admin page
\* Array.prototype.sort by createdAt, newest first; the sort is stable, so
\* orders of equal createdAt keep their order.
RECURSIVE sortByCreatedAtDesc(_)
sortByCreatedAtDesc(os) ==
  IF os = << >> THEN << >>
  ELSE LET sorted == sortByCreatedAtDesc(SubSeq(os, 1, Len(os) - 1))
           o == os[Len(os)]
           k == Cardinality({i \in 1..Len(sorted) : sorted[i].createdAt >= o.createdAt})
       IN SubSeq(sorted, 1, k) \o << o >> \o SubSeq(sorted, k + 1, Len(sorted))

\* MemStorage.getOrders: the restaurant's orders, of the status asked when
\* one is given, newest first.
getOrders(restaurantId, status) ==
  LET ids == Ascending({id \in DOMAIN orders :
                          /\ orders[id].restaurantId = restaurantId
                          /\ status \notin {"", Undefined} => orders[id].status = status})
  IN sortByCreatedAtDesc([i \in 1..Len(ids) |-> orders[ids[i]]])

\* The admin page's useQuery of GET /api/restaurant/:id/orders: the page
\* caches, for every order of the answer, the status its card shows.
AdminFetchOrders(a) ==
  LET list == getOrders(1, Undefined) IN
  /\ adminOrders' = [adminOrders EXCEPT ![a] =
                       [id \in {list[i].id : i \in 1..Len(list)} |-> orders[id].status]]
  /\ res' = [op |-> "GET /api/restaurant/:id/orders", code |-> 200, data |-> list]
  /\ UNCHANGED << goVars, now, restaurants, orders, currentIdsOrder, clients, readyState,
                  inbox, clientRestaurant >>

\* OrderCard.getStatusActions: the status the card's one button asks for.
getStatusActions(status) ==
  CASE status = "pending" -> "preparing"
    [] status = "preparing" -> "ready"
    [] status = "ready" -> "completed"
    [] OTHER -> "null"

\* The button of the card of order id on admin page a: updateStatusMutation
\* with the status the card derives from the status it shows.
AdminCardAction(a, id) ==
  /\ id \in DOMAIN adminOrders[a]
  /\ getStatusActions(adminOrders[a][id]) # "null"
  /\ PatchOrderStatus(id, getStatusActions(adminOrders[a][id]))

\* ------------------------------------------------------ customer client
\* handlePlaceOrder: the request body the customer page builds from its cart.
handlePlaceOrder(cart, orderType, tableNumber) ==
  LET orderItems == [i \in 1..Len(cart) |->
                       [ id |-> cart[i].id, name |-> cart[i].name,
                         price |-> cart[i].price, quantity |-> cart[i].quantity,
                         total |-> cart[i].price * cart[i].quantity ]]
      t == calculateOrderTotal(
             cart,
             IF clientRestaurant.loaded THEN clientRestaurant.serviceCharge
             ELSE FallbackServiceCharge,
             IF clientRestaurant.loaded THEN clientRestaurant.gst
             ELSE FallbackGst)
  IN [ restaurantId |-> 1,
       tableNumber |-> IF orderType = "dine-in" THEN tableNumber ELSE "null",
       orderType |-> orderType,
       status |-> Undefined,
       items |-> orderItems,
       subtotal |-> toFixed2(t.subtotal),
       serviceCharge |-> toFixed2(t.serviceChargeAmount),
       gst |-> toFixed2(t.gstAmount),
       total |-> toFixed2(t.total) ]

\* The Place Order button of CartSidebar, enabled unless the order is dine-in
\* with a blank table number.
ClientPlaceOrder ==
  \E cart \in Carts, orderType \in OrderTypes, tableNumber \in {"", "7"} :
    /\ ~(orderType = "dine-in" /\ tableNumber = "")
    /\ PostOrders(handlePlaceOrder(cart, orderType, tableNumber))

\* useQuery(/api/restaurant/:id): the page caches the restaurant it fetched.
ClientFetchRestaurant ==
  /\ clientRestaurant' = [loaded |-> TRUE, serviceCharge |-> restaurants[1].serviceCharge,
                          gst |-> restaurants[1].gst]
  /\ res' = [op |-> "GET /api/restaurant/:id", code |-> 200, data |-> restaurants[1]]
  /\ UNCHANGED << goVars, now, restaurants, orders, currentIdsOrder, clients, readyState,
                  inbox, adminOrders >>

\* Any other HTTP client: bodies the order schema is asked to parse.
ApiBodies ==
  [ restaurantId : RestaurantIds,
    tableNumber : {"null"},
    orderType : OrderTypes,
    status : {Undefined, "completed"},
    items : { << [id |-> 2, name |-> "Special Thali", price |-> 10000,
                  quantity |-> 1, total |-> 10000] >> },
    subtotal : {Absent, 10000},
    serviceCharge : {Absent},
    gst : {Absent},
    total : {10000} ]

ApiPostOrders == \E body \in ApiBodies : PostOrders(body)

ApiPatchOrderStatus ==
  \E id \in 1..MaxOrders, status \in ORDER_STATUSES \cup {"served"} :
    PatchOrderStatus(id, status)

\* ------------------------------------------------------------ restaurants
\* updateRestaurant as it would be if a new end date were counted from the
\* stored end date instead of replacing it.
updateRestaurantExtending(existing, update) ==
  [f \in DOMAIN existing |->
     IF f \notin DOMAIN update THEN existing[f]
     ELSE IF f = "subscriptionEndDate"
          THEN existing[f] + (update[f] - now)
          ELSE update[f]]

\* MemStorage.updateRestaurant: the stored restaurant overlaid with the
\* fields the update carries.
updateRestaurant(existing, update) ==
  [f \in DOMAIN existing |-> IF f \in DOMAIN update THEN update[f] ELSE existing[f]]

\* PATCH /api/restaurant/:id
PatchRestaurant(id, body) ==
  /\ IF id \notin DOMAIN restaurants
     THEN /\ res' = [op |-> "PATCH /api/restaurant/:id", code |-> 404]
          /\ UNCHANGED restaurants
     ELSE /\ restaurants' = [restaurants EXCEPT ![id] = updateRestaurant(@, body)]
          /\ res' = [op |-> "PATCH /api/restaurant/:id", code |-> 200, data |-> restaurants'[id]]
  /\ UNCHANGED << goVars, now, orders, currentIdsOrder, clients, readyState, inbox,
                  clientRestaurant, adminOrders >>

RateUpdates ==
  { [serviceCharge |-> 0, gst |-> 12], [serviceCharge |-> 10, gst |-> 5] }

ApiPatchRestaurant ==
  \E id \in RestaurantIds \cup {2}, body \in RateUpdates : PatchRestaurant(id, body)

\* The update of an activate that sets the flag and leaves the end date alone.
subscriptionUpdateDataFlagOnly(action) ==
  CASE action = "activate" ->
         [isActive |-> TRUE]
    [] action = "suspend" ->
         [isActive |-> FALSE]
    [] action = "expire_trial" ->
         [isActive |-> FALSE, planType |-> "expired", subscriptionEndDate |-> now - 1]
    [] action = "extend_trial" ->
         [subscriptionEndDate |-> now + 30 * Day]

\* PATCH /api/super-admin/restaurants/:id/subscription
subscriptionUpdateData(action) ==
  CASE action = "activate" ->
         [isActive |-> TRUE, subscriptionEndDate |-> now + 365 * Day]
    [] action = "suspend" ->
         [isActive |-> FALSE]
    [] action = "expire_trial" ->
         [isActive |-> FALSE, planType |-> "expired", subscriptionEndDate |-> now - 1]
    [] action = "extend_trial" ->
         [subscriptionEndDate |-> now + 30 * Day]

SubscriptionActions == {"activate", "suspend", "expire_trial", "extend_trial"}

PatchSubscription(id, action) ==
  /\ CanBroadcast
  /\ IF action \notin SubscriptionActions
     THEN /\ res' = [op |-> "PATCH /api/super-admin/restaurants/:id/subscription", code |-> 400]
          /\ UNCHANGED << restaurants, inbox >>
     ELSE IF id \notin DOMAIN restaurants
     THEN /\ res' = [op |-> "PATCH /api/super-admin/restaurants/:id/subscription", code |-> 404]
          /\ UNCHANGED << restaurants, inbox >>
     ELSE LET restaurant == updateRestaurant(restaurants[id], subscriptionUpdateData(action)) IN
          /\ restaurants' = [restaurants EXCEPT ![id] = restaurant]
          /\ broadcast([type |-> "SUBSCRIPTION_UPDATE",
                        data |-> [restaurantId |-> id, action |-> action,
                                  newStatus |-> restaurant.isActive]])
          /\ res' = [op |-> "PATCH /api/super-admin/restaurants/:id/subscription",
                      code |-> 200, data |-> restaurant]
  /\ UNCHANGED << goVars, now, orders, currentIdsOrder, clients, readyState,
                  clientRestaurant, adminOrders >>

ApiPatchSubscription ==
  \E id \in RestaurantIds \cup {2}, action \in SubscriptionActions \cup {"renew"} :
    PatchSubscription(id, action)

\* POST /api/restaurant/:id/upgrade: the plan of the body (premium when it
\* names none), the end date one calendar month ahead (setMonth(+1); the
\* model's clock runs in a month of MonthDays days), the flag set. No frame
\* is sent.
PostUpgrade(id, planType) ==
  /\ IF id \notin DOMAIN restaurants
     THEN /\ res' = [op |-> "POST /api/restaurant/:id/upgrade", code |-> 404]
          /\ UNCHANGED restaurants
     ELSE LET restaurant ==
                updateRestaurant(restaurants[id],
                  [planType |-> IF planType \in {"", Undefined} THEN "premium" ELSE planType,
                   subscriptionEndDate |-> now + MonthDays * Day,
                   isActive |-> TRUE])
          IN /\ restaurants' = [restaurants EXCEPT ![id] = restaurant]
             /\ res' = [op |-> "POST /api/restaurant/:id/upgrade", code |-> 200,
                         data |-> restaurant]
  /\ UNCHANGED << goVars, now, orders, currentIdsOrder, clients, readyState, inbox,
                  clientRestaurant, adminOrders >>

ApiPostUpgrade ==
  \E id \in RestaurantIds \cup {2}, planType \in {Undefined, "premium"} :
    PostUpgrade(id, planType)

\* Math.ceil((endDate - now) / one day): the days left, rounded up (a
\* fraction of a day in the past rounds up to zero).
daysLeft(endDate) == -((now - endDate) \div Day)

\* GET /api/super-admin/stats: the counter the handler adds a restaurant to.
statsSubscriptionClass(restaurant) ==
  IF restaurant.subscriptionEndDate = NullDate THEN "expired"
  ELSE IF daysLeft(restaurant.subscriptionEndDate) < 0 THEN "expired"
  ELSE IF daysLeft(restaurant.subscriptionEndDate) <= 30 THEN "trial"
  ELSE "active"

\* GET /api/super-admin/stats: the subscription counters of the answer.
GetSuperAdminStats ==
  LET count(class) ==
        Cardinality({id \in DOMAIN restaurants :
                       statsSubscriptionClass(restaurants[id]) = class})
  IN /\ res' = [op |-> "GET /api/super-admin/stats", code |-> 200,
                 data |-> [totalRestaurants |-> Cardinality(DOMAIN restaurants),
                           activeSubscriptions |-> count("active"),
                           trialRestaurants |-> count("trial"),
                           expiredSubscriptions |-> count("expired")]]
     /\ UNCHANGED << goVars, now, restaurants, orders, currentIdsOrder, clients,
                     readyState, inbox, clientRestaurant, adminOrders >>

\* getSubscriptionStatus of the test-subscription page: the status it shows
\* for the restaurant it fetched (the labels without their day counts).
getSubscriptionStatus(restaurant) ==
  IF ~restaurant.isActive THEN "suspended/expired"
  ELSE IF restaurant.subscriptionEndDate = NullDate THEN "unknown"
  ELSE IF daysLeft(restaurant.subscriptionEndDate) < 0 THEN "expired"
  ELSE IF daysLeft(restaurant.subscriptionEndDate) <= 7 THEN "days left"
  ELSE IF daysLeft(restaurant.subscriptionEndDate) <= 30 THEN "trial"
  ELSE "active"

\* getSubscriptionStatus of the super-admin dashboard: the status it shows in
\* a restaurant's row (the labels without their day counts).
getSubscriptionStatusSuperAdmin(restaurant) ==
  IF restaurant.subscriptionEndDate = NullDate THEN "expired"
  ELSE IF daysLeft(restaurant.subscriptionEndDate) < 0 THEN "expired"
  ELSE IF daysLeft(restaurant.subscriptionEndDate) <= 7 THEN "d left"
  ELSE IF daysLeft(restaurant.subscriptionEndDate) <= 30 THEN "trial"
  ELSE "active"

\* The test-subscription page fetches restaurant 1 and shows its status.
ViewTestSubscription ==
  /\ res' = [op |-> "test-subscription", code |-> 200, data |-> restaurants[1],
              status |-> getSubscriptionStatus(restaurants[1])]
  /\ UNCHANGED << goVars, now, restaurants, orders, currentIdsOrder, clients,
                  readyState, inbox, clientRestaurant, adminOrders >>

\* Bodies of PATCH /api/restaurant/:id that set the active flag.
ActivationUpdates == { [isActive |-> TRUE] }

\* ------------------------------------------------------------ go-backend
\* The request bodies json.Decode fills an Order from.
GoBodies ==
  [ restaurantId : RestaurantIds,
    orderType : {"takeaway"},
    tableNumber : {"null"},
    status : {"", "completed"},
    items : { << [id |-> 2, name |-> "Special Thali", price |-> 10000,
                  quantity |-> 1, total |-> 10000] >> },
    subtotal : {10000},
    serviceCharge : {1000},
    gst : {550},
    total : {11550} ]

\* The statuses asked of updateOrderStatus (it takes any string).
GoStatusInputs == {"pending", "preparing"}

\* createOrder: the decoded order with its order number, as db.Create stores
\* it (an empty status takes the column default).
goNewOrder(body) ==
  [ id |-> goNextId,
    restaurantId |-> body.restaurantId,
    orderNumber |-> [sec |-> now, restaurantId |-> body.restaurantId],
    orderType |-> body.orderType,
    tableNumber |-> body.tableNumber,
    items |-> body.items,
    subtotal |-> body.subtotal,
    serviceCharge |-> body.serviceCharge,
    gst |-> body.gst,
    total |-> body.total,
    status |-> IF body.status = "" THEN "pending" ELSE body.status,
    createdAt |-> now,
    updatedAt |-> now ]

\* handleMessages after its range loop has the connections todo left to visit.
hubAfter(msg, todo) ==
  IF todo = {} THEN HubIdle ELSE [pc |-> "range", msg |-> msg, todo |-> todo]

\* createOrder up to db.Create: the unique index on order_number rejects a
\* second order with the same number; the serial is consumed either way.
GoCreateOrder(h, body) ==
  LET order == goNewOrder(body) IN
  /\ ~goCrashed
  /\ goPc[h] = "idle"
  /\ goNextId <= MaxOrders
  /\ goNextId' = goNextId + 1
  /\ IF \E id \in DOMAIN goOrders : goOrders[id].orderNumber = order.orderNumber
     THEN /\ goRes' = [goRes EXCEPT ![h] = [op |-> "createOrder", code |-> 500]]
          /\ UNCHANGED << goOrders, goPc, goLocal >>
     ELSE /\ goOrders' = [i \in DOMAIN goOrders \cup {order.id} |->
                            IF i = order.id THEN order ELSE goOrders[i]]
          /\ goPc' = [goPc EXCEPT ![h] = "send"]
          /\ goLocal' = [goLocal EXCEPT ![h] =
                           [op |-> "createOrder",
                            msg |-> [type |-> "newOrder", data |-> order]]]
          /\ goRes' = [goRes EXCEPT ![h] = NoRes]
  /\ UNCHANGED << now, nodeVars, goClients, goConn, goInbox, goHub, goCrashed >>

\* updateOrderStatus up to db.First.
GoLoadOrder(h, id, status) ==
  /\ ~goCrashed
  /\ goPc[h] = "idle"
  /\ IF id \notin DOMAIN goOrders
     THEN /\ goRes' = [goRes EXCEPT ![h] = [op |-> "updateOrderStatus", code |-> 404]]
          /\ UNCHANGED << goPc, goLocal >>
     ELSE /\ goPc' = [goPc EXCEPT ![h] = "save"]
          /\ goLocal' = [goLocal EXCEPT ![h] =
                           [op |-> "updateOrderStatus", order |-> goOrders[id],
                            status |-> status]]
          /\ goRes' = [goRes EXCEPT ![h] = NoRes]
  /\ UNCHANGED << now, nodeVars, goOrders, goNextId, goClients, goConn, goInbox,
                  goHub, goCrashed >>

\* updateOrderStatus from order.Status = request.Status to db.Save, which
\* writes every column of the order the goroutine holds.
GoSaveOrder(h) ==
  /\ ~goCrashed
  /\ goPc[h] = "save"
  /\ LET order == [goLocal[h].order EXCEPT !.status = goLocal[h].status,
                                           !.updatedAt = now] IN
       /\ goOrders' = [goOrders EXCEPT ![order.id] = order]
       /\ goLocal' = [goLocal EXCEPT ![h] =
                        [op |-> "updateOrderStatus",
                         msg |-> [type |-> "orderStatusUpdate", data |-> order]]]
  /\ goPc' = [goPc EXCEPT ![h] = "send"]
  /\ UNCHANGED << now, nodeVars, goNextId, goClients, goConn, goInbox, goHub,
                  goRes, goCrashed >>

\* broadcastMessage: the send on the unbuffered channel completes when
\* handleMessages receives; the handler then writes its response.
GoBroadcastSend(h) ==
  /\ ~goCrashed
  /\ goPc[h] = "send"
  /\ goHub.pc = "recv"
  /\ goHub' = hubAfter(goLocal[h].msg, goClients)
  /\ goPc' = [goPc EXCEPT ![h] = "idle"]
  /\ goRes' = [goRes EXCEPT ![h] = [op |-> goLocal[h].op, code |-> 200]]
  /\ goLocal' = [goLocal EXCEPT ![h] = NoLocal]
  /\ UNCHANGED << now, nodeVars, goOrders, goNextId, goClients, goConn, goInbox,
                  goCrashed >>

\* handleMessages: one iteration of the range over clients. A write to an
\* open connection waits for room; a write to a broken one fails, and the
\* connection is closed and deleted from the map.
GoHubWrite(c) ==
  /\ ~goCrashed
  /\ goHub.pc = "range"
  /\ c \in goHub.todo
  /\ IF goConn[c] = "OPEN"
     THEN /\ Len(goInbox[c]) < SendBuffer(c)
          /\ goInbox' = [goInbox EXCEPT ![c] = Append(@, goHub.msg)]
          /\ UNCHANGED goClients
     ELSE /\ goClients' = goClients \ {c}
          /\ UNCHANGED goInbox
  /\ goHub' = hubAfter(goHub.msg, goHub.todo \ {c})
  /\ UNCHANGED << now, nodeVars, goOrders, goNextId, goConn, goPc, goLocal,
                  goRes, goCrashed >>

\* handleWebSocket: clients[conn] = true. The map is written without a lock:
\* while handleMessages ranges over it the runtime may abort the process, and
\* otherwise the new entry may or may not be visited by the running loop.
GoWsConnect(c) ==
  /\ ~goCrashed
  /\ goConn[c] = "NEW"
  /\ goConn' = [goConn EXCEPT ![c] = "OPEN"]
  /\ goClients' = goClients \cup {c}
  /\ IF goHub.pc = "range"
     THEN \/ /\ goCrashed' = TRUE
             /\ UNCHANGED goHub
          \/ /\ goHub' = [goHub EXCEPT !.todo = @ \cup {c}]
             /\ UNCHANGED goCrashed
          \/ UNCHANGED << goHub, goCrashed >>
     ELSE UNCHANGED << goHub, goCrashed >>
  /\ UNCHANGED << now, nodeVars, goOrders, goNextId, goInbox, goPc, goLocal, goRes >>

\* The peer goes away: reads and writes on the connection fail from now on.
GoWsBreak(c) ==
  /\ ~goCrashed
  /\ goConn[c] = "OPEN"
  /\ goConn' = [goConn EXCEPT ![c] = "BROKEN"]
  /\ goInbox' = [goInbox EXCEPT ![c] = << >>]
  /\ UNCHANGED << now, nodeVars, goOrders, goNextId, goClients, goHub, goPc,
                  goLocal, goRes, goCrashed >>

\* handleWebSocket: ReadMessage fails, delete(clients, conn), again without a
\* lock.
GoWsDisconnect(c) ==
  /\ ~goCrashed
  /\ goConn[c] = "BROKEN"
  /\ goConn' = [goConn EXCEPT ![c] = "CLOSED"]
  /\ goClients' = goClients \ {c}
  /\ IF goHub.pc = "range"
     THEN \/ /\ goCrashed' = TRUE
             /\ UNCHANGED goHub
          \/ /\ goHub' = hubAfter(goHub.msg, goHub.todo \ {c})
             /\ UNCHANGED goCrashed
          \/ UNCHANGED << goHub, goCrashed >>
     ELSE UNCHANGED << goHub, goCrashed >>
  /\ UNCHANGED << now, nodeVars, goOrders, goNextId, goInbox, goPc, goLocal, goRes >>

\* The client at the other end reads the oldest frame.
GoWsReceive(c) ==
  /\ ~goCrashed
  /\ goInbox[c] # << >>
  /\ goInbox' = [goInbox EXCEPT ![c] = Tail(@)]
  /\ UNCHANGED << now, nodeVars, goOrders, goNextId, goClients, goConn, goHub,
                  goPc, goLocal, goRes, goCrashed >>

\* Order bodies for getStats: one or two line items.
GoStatsBodies ==
  [ restaurantId : RestaurantIds,
    orderType : {"takeaway"},
    tableNumber : {"null"},
    status : {""},
    items : { << [id |-> 2, name |-> "Special Thali", price |-> 10000,
                  quantity |-> 1, total |-> 10000] >>,
              << [id |-> 1, name |-> "Aloo Paratha", price |-> 1004,
                  quantity |-> 1, total |-> 1004],
                 [id |-> 2, name |-> "Special Thali", price |-> 10000,
                  quantity |-> 2, total |-> 20000] >> },
    subtotal : {10000},
    serviceCharge : {1000},
    gst : {550},
    total : {11550, NotANumber} ]

\* getStats: the rows db.Find returns, the restaurant's orders created on
\* today's date.
goTodayOrders(restaurantId) ==
  LET ids == Ascending({id \in DOMAIN goOrders :
                          /\ goOrders[id].restaurantId = restaurantId
                          /\ goOrders[id].createdAt \div Day = now \div Day})
  IN [i \in 1..Len(ids) |-> goOrders[ids[i]]]

\* getStats: revenue, the sum of the totals strconv.ParseFloat accepts.
RECURSIVE goRevenue(_)
goRevenue(os) ==
  IF os = << >> THEN 0
  ELSE (IF Head(os).total = NotANumber THEN 0 ELSE Head(os).total) + goRevenue(Tail(os))

\* getStats: the orders a range over the itemCounts map can list its entries
\* in. Go leaves the iteration order of a map unspecified, and getStats
\* neither sorts nor cuts the list.
goPopularItems(os) ==
  LET counts == itemCounts(lineItems(os))
      entries == {counts[i] : i \in 1..Len(counts)}
  IN {p \in [1..Len(counts) -> entries] : \A i, j \in 1..Len(counts) : i # j => p[i] # p[j]}

\* getStats: a read-only request, answered from one db.Find.
GoGetStats(h, restaurantId) ==
  /\ ~goCrashed
  /\ goPc[h] = "idle"
  /\ \E popularItems \in goPopularItems(goTodayOrders(restaurantId)) :
       goRes' = [goRes EXCEPT ![h] =
                   [op |-> "getStats", code |-> 200,
                    data |-> [orderCount |-> Len(goTodayOrders(restaurantId)),
                              revenue |-> goRevenue(goTodayOrders(restaurantId)),
                              avgPrepTime |-> 12,
                              popularItems |-> popularItems]]]
  /\ UNCHANGED << now, nodeVars, goOrders, goNextId, goClients, goConn, goInbox,
                  goHub, goPc, goLocal, goCrashed >>

\* The results of a query over rows that orders by created_at: every
\* arrangement of the rows in which created_at never rises (descending) or
\* never falls; rows of equal created_at come in any order.
OrderedByCreatedAt(rows, descending) ==
  {p \in [1..Cardinality(rows) -> rows] :
     /\ \A i, j \in 1..Cardinality(rows) : i # j => p[i] # p[j]
     /\ \A i, j \in 1..Cardinality(rows) :
          i < j => IF descending THEN p[i].createdAt >= p[j].createdAt
                   ELSE p[i].createdAt <= p[j].createdAt}

\* getOrders of main.go: the restaurant's rows, of the status asked when one
\* is given, ORDER BY created_at DESC.
GoGetOrders(h, restaurantId, status) ==
  /\ ~goCrashed
  /\ goPc[h] = "idle"
  /\ \E rows \in OrderedByCreatedAt(
                   {goOrders[id] : id \in {i \in DOMAIN goOrders :
                      /\ goOrders[i].restaurantId = restaurantId
                      /\ status # "" => goOrders[i].status = status}}, TRUE) :
       goRes' = [goRes EXCEPT ![h] = [op |-> "getOrders", code |-> 200, data |-> rows]]
  /\ UNCHANGED << now, nodeVars, goOrders, goNextId, goClients, goConn, goInbox,
                  goHub, goPc, goLocal, goCrashed >>

\* GET /api/restaurant/:id/orders over DatabaseStorage.getOrders: the rows of
\* the orders table (the table the Go backend's createOrder fills;
\* DatabaseStorage.createOrder leaves order_number out of its insert), of the
\* status asked when one is given, orderBy(orders.createdAt).
DbGetOrders(restaurantId, status) ==
  /\ \E rows \in OrderedByCreatedAt(
                   {goOrders[id] : id \in {i \in DOMAIN goOrders :
                      /\ goOrders[i].restaurantId = restaurantId
                      /\ status \notin {"", Undefined} => goOrders[i].status = status}}, FALSE) :
       res' = [op |-> "GET /api/restaurant/:id/orders", code |-> 200, data |-> rows]
  /\ UNCHANGED << goVars, now, restaurants, orders, currentIdsOrder, clients,
                  readyState, inbox, clientRestaurant, adminOrders >>

\* ------------------------------------------------------------------ Next
\* The Node server under any HTTP clients, with one dashboard socket.
Next ==
  \/ Tick
  \/ \E ws \in DashboardSockets : WsConnect(ws)
  \/ \E ws \in Sockets : WsClose(ws)
  \/ \E ws \in Sockets : WsReceive(ws)
  \/ ApiPostOrders
  \/ ApiPatchOrderStatus
  \/ ApiPatchRestaurant

Spec == Init /\ [][Next]_vars

\* The Node server driven by the customer page.
NextCustomer ==
  \/ Tick
  \/ \E ws \in DashboardSockets : WsConnect(ws)
  \/ \E ws \in Sockets : WsReceive(ws)
  \/ ClientFetchRestaurant
  \/ ClientPlaceOrder
  \/ ApiPatchRestaurant

SpecCustomer == Init /\ [][NextCustomer]_vars

\* The Node server with the super-admin's subscription actions.
NextGate ==
  \/ Tick
  \/ \E ws \in DashboardSockets : WsConnect(ws)
  \/ \E ws \in Sockets : WsReceive(ws)
  \/ ApiPostOrders
  \/ ApiPatchSubscription

SpecGate == Init /\ [][NextGate]_vars

\* The Node server as the super admin and the subscription pages see it.
NextAdmin ==
  \/ Tick
  \/ \E ws \in DashboardSockets : WsConnect(ws)
  \/ \E ws \in Sockets : WsReceive(ws)
  \/ ApiPatchSubscription
  \/ \E id \in RestaurantIds, body \in ActivationUpdates : PatchRestaurant(id, body)
  \/ GetSuperAdminStats
  \/ ViewTestSubscription

SpecAdmin == Init /\ [][NextAdmin]_vars

\* The Node server under every action that changes a subscription.
NextBilling ==
  \/ Tick
  \/ \E ws \in DashboardSockets : WsConnect(ws)
  \/ \E ws \in Sockets : WsReceive(ws)
  \/ ApiPatchSubscription
  \/ ApiPostUpgrade

SpecBilling == Init /\ [][NextBilling]_vars

\* The Node server's daily statistics over the orders placed.
NextStats ==
  \/ Tick
  \/ \E ws \in DashboardSockets : WsConnect(ws)
  \/ \E ws \in Sockets : WsReceive(ws)
  \/ \E body \in StatsBodies : PostOrders(body)
  \/ \E id \in RestaurantIds : GetStats(id)

SpecStats == Init /\ [][NextStats]_vars

\* The Node server with two admin pages working the order cards.
NextCards ==
  \/ ApiPostOrders
  \/ \E a \in AdminClients : AdminFetchOrders(a)
  \/ \E a \in AdminClients, id \in 1..MaxOrders : AdminCardAction(a, id)

SpecCards == Init /\ [][NextCards]_vars

\* The Go backend: request goroutines, connection goroutines and handleMessages.
NextGo ==
  \/ Tick
  \/ \E c \in GoDashboardConns : GoWsConnect(c)
  \/ \E c \in GoDashboardConns : GoWsBreak(c)
  \/ \E c \in GoDashboardConns : GoWsDisconnect(c)
  \/ \E c \in GoDashboardConns : GoWsReceive(c)
  \/ \E c \in GoDashboardConns : GoHubWrite(c)
  \/ \E h \in GoHandlers, body \in GoBodies : GoCreateOrder(h, body)
  \/ \E h \in GoHandlers, id \in 1..MaxOrders, status \in GoStatusInputs :
       GoLoadOrder(h, id, status)
  \/ \E h \in GoHandlers : GoSaveOrder(h)
  \/ \E h \in GoHandlers : GoBroadcastSend(h)

SpecGo == Init /\ [][NextGo]_vars

\* The Go backend's daily statistics over the orders placed.
NextGoStats ==
  \/ Tick
  \/ \E body \in GoStatsBodies : GoCreateOrder("h1", body)
  \/ GoBroadcastSend("h1")
  \/ \E id \in RestaurantIds : GoGetStats("h2", id)

SpecGoStats == Init /\ [][NextGoStats]_vars

\* The orders table under the Go backend's creates, listed by the Go backend
\* and by DatabaseStorage.
NextList ==
  \/ Tick
  \/ \E body \in GoBodies : GoCreateOrder("h1", body)
  \/ GoBroadcastSend("h1")
  \/ \E id \in RestaurantIds, status \in {"", "pending"} : GoGetOrders("h2", id, status)
  \/ \E id \in RestaurantIds, status \in {Undefined, "pending"} : DbGetOrders(id, status)

SpecList == Init /\ [][NextList]_vars

\* The Go backend's hub: one request goroutine publishing to two connections.
NextHub ==
  \/ Tick
  \/ \E c \in GoConns : GoWsConnect(c)
  \/ \E c \in GoConns : GoWsBreak(c)
  \/ \E c \in GoConns : GoWsDisconnect(c)
  \/ \E c \in GoConns : GoWsReceive(c)
  \/ \E c \in GoConns : GoHubWrite(c)
  \/ \E body \in GoBodies : GoCreateOrder("h1", body)
  \/ \E id \in 1..MaxOrders, status \in GoStatusInputs : GoLoadOrder("h1", id, status)
  \/ GoSaveOrder("h1")
  \/ GoBroadcastSend("h1")

SpecHub == Init /\ [][NextHub]_vars

\* The same, with the scheduler running every goroutine that can take a step;
\* whether a peer reads, breaks or connects is up to the peer.
SpecHubFair ==
  /\ SpecHub
  /\ WF_vars(GoSaveOrder("h1"))
  /\ WF_vars(GoBroadcastSend("h1"))
  /\ WF_vars(\E c \in GoConns : GoHubWrite(c))

\* Order bodies of the ordering runs: one takeaway order.
OrderingBodies ==
  {body \in ApiBodies : /\ body.subtotal # Absent
                        /\ body.status = Undefined
                        /\ body.orderType = "takeaway"}

\* Both servers publishing to a slow reader: orders are placed on the Node
\* server, and by two request goroutines on the Go server.
NextOrdering ==
  \/ Tick
  \/ WsConnect("ws2")
  \/ WsReceive("ws2")
  \/ \E body \in OrderingBodies : PostOrders(body)
  \/ GoWsConnect("c2")
  \/ GoWsReceive("c2")
  \/ \E h \in GoHandlers : \E body \in {b \in GoBodies : b.status = ""} :
       GoCreateOrder(h, body)
  \/ \E h \in GoHandlers : GoBroadcastSend(h)
  \/ GoHubWrite("c2")

SpecOrdering == Init /\ [][NextOrdering]_vars

\* ================================================================ claims
Terminal == {"completed", "cancelled"}

StatusRank(status) ==
  CASE status = "pending" -> 1
    [] status = "preparing" -> 2
    [] status = "ready" -> 3
    [] status = "completed" -> 4
    [] OTHER -> 0

\* A change the order state machine of the specification permits: forward
\* along pending, preparing, ready, completed, or to cancelled, and never out
\* of a terminal status.
AllowedTransition(from, to) ==
  /\ from \notin Terminal
  /\ \/ to = "cancelled"
     \/ to \in ORDER_STATUSES \ {"cancelled"} /\ StatusRank(to) > StatusRank(from)

\* The requests C1 names: any target out of a terminal status, or a target
\* behind the stored status.
RejectedTransition(from, to) ==
  \/ from \in Terminal
  \/ to # "cancelled" /\ StatusRank(to) < StatusRank(from)

\* C1: a transition request whose target is not allowed from the stored
\* status (backward, or any target out of completed or cancelled) is answered
\* with the 400 of InvalidTransition and leaves the stored status unchanged.
C1_InvalidTransitionRejected ==
  [][\A id \in 1..MaxOrders, status \in ORDER_STATUSES :
       ( /\ id \in DOMAIN orders
         /\ RejectedTransition(orders[id].status, status)
         /\ PatchOrderStatus(id, status) )
       => /\ res'.code = 400
          /\ orders'[id].status = orders[id].status]_vars

\* C2: every change of an order's stored status is a permitted one, so a
\* completed or cancelled order never changes status again.
C2_StatusMonotonic ==
  [][\A id \in DOMAIN orders :
       orders'[id].status # orders[id].status
       => AllowedTransition(orders[id].status, orders'[id].status)]_vars

\* C3: a transition call never overwrites a stored status other than the one
\* it read: when it writes, the stored status is still the status it loaded.
C3_NoOverwriteOfUnreadStatus ==
  [][\A h \in GoHandlers :
       GoSaveOrder(h)
       => goOrders[goLocal[h].order.id].status = goLocal[h].order.status]_vars

\* The effective status "expired" of the specification.
EffectivelyExpired(restaurant) ==
  \/ ~restaurant.isActive
  \/ /\ restaurant.subscriptionEndDate # NullDate
     /\ now > restaurant.subscriptionEndDate

\* C4: an order placement for a tenant whose effective status is expired is
\* answered with the 403 of ForbiddenTenant and creates no order.
C4_ExpiredTenantDenied ==
  [][\A body \in ApiBodies :
       ( /\ insertOrderSchemaAccepts(body)
         /\ EffectivelyExpired(restaurants[body.restaurantId])
         /\ PostOrders(body) )
       => /\ res'.code = 403
          /\ orders' = orders]_vars

\* C5: every create call stores an order, and no two stored orders share an
\* order number.
C5_OrderNumbersDistinct ==
  [][\A h \in GoHandlers, body \in GoBodies :
       GoCreateOrder(h, body)
       => /\ goOrders' # goOrders
          /\ \A i, j \in DOMAIN goOrders' :
               i # j => goOrders'[i].orderNumber # goOrders'[j].orderNumber]_vars

\* C6: the order create returns, which is the order it stored, has status
\* pending whatever the request body contains.
C6_CreatedPending ==
  [][\A body \in ApiBodies :
       (PostOrders(body) /\ res'.code = 201)
       => /\ res'.data.status = "pending"
          /\ orders'[res'.data.id].status = "pending"]_vars

\* C7: for every stored order, total = subtotal + service charge + tax on
\* the persisted two-decimal amounts.
C7_TotalIsSumOfParts ==
  \A id \in DOMAIN orders :
    orders[id].total = orders[id].subtotal + orders[id].serviceCharge + orders[id].gst

\* C8: a created order stores subtotal = sum of price x quantity, service
\* charge = subtotal x rate / 100 and tax = (subtotal + service charge) x tax
\* rate / 100, at the tenant's rates of the moment of creation.
C8_AmountsFromTenantRates ==
  [][\A body \in ApiBodies :
       (PostOrders(body) /\ res'.code = 201)
       => LET order == res'.data
              restaurant == restaurants[order.restaurantId]
          IN /\ order.subtotal =
                  SumSeq([i \in 1..Len(order.items) |->
                            order.items[i].price * order.items[i].quantity])
             /\ order.serviceCharge * 100 = order.subtotal * restaurant.serviceCharge
             /\ order.gst * 100 = (order.subtotal + order.serviceCharge) * restaurant.gst]_vars

\* C9: once an order is stored, its subtotal, service charge, tax, total and
\* line items are the same after every step, status transitions and changes
\* of the tenant's rates included.
C9_AmountsFrozen ==
  [][\A id \in DOMAIN orders :
       /\ id \in DOMAIN orders'
       /\ orders'[id].subtotal = orders[id].subtotal
       /\ orders'[id].serviceCharge = orders[id].serviceCharge
       /\ orders'[id].gst = orders[id].gst
       /\ orders'[id].total = orders[id].total
       /\ orders'[id].items = orders[id].items]_vars

\* A rate change has just been answered while an order priced at other rates
\* has gone through a status transition after its creation.
C9_Witness ==
  /\ res.op = "PATCH /api/restaurant/:id"
  /\ res.code = 200
  /\ \E id \in DOMAIN orders :
       /\ orders[id].updatedAt > orders[id].createdAt
       /\ orders[id].status # "pending"
       /\ orders[id].serviceCharge * 100 # orders[id].subtotal * res.data.serviceCharge

\* C10: create with order type dine-in and no table number is answered with
\* the 400 of ValidationError, stores no order and sends no frame.
C10_DineInNeedsTable ==
  [][\A body \in ApiBodies :
       ( /\ body.orderType = "dine-in"
         /\ body.tableNumber \in {"null", "", Undefined}
         /\ PostOrders(body) )
       => /\ res'.code = 400
          /\ orders' = orders
          /\ inbox' = inbox]_vars

\* C11: a transition to one of the five statuses on an order id that is not
\* in the store is answered 404, leaves every stored order as it was and
\* sends no frame to any socket.
C11_UnknownOrderNotFound ==
  [][\A id \in 1..MaxOrders, status \in ORDER_STATUSES :
       (id \notin DOMAIN orders /\ PatchOrderStatus(id, status))
       => /\ res'.code = 404
          /\ orders' = orders
          /\ inbox' = inbox]_vars

\* A 404 has just been answered to a transition while other orders are
\* stored and a dashboard socket is registered and open.
C11_Witness ==
  /\ res.op = "PATCH /api/orders/:id/status"
  /\ res.code = 404
  /\ orders # << >>
  /\ \E ws \in clients : readyState[ws] = "OPEN"

C13_PublishReachesEveryChannelOnce ==
  [][/\ \A c \in GoConns :
          (GoHubWrite(c) /\ goConn[c] = "OPEN")
          => /\ goInbox'[c] = Append(goInbox[c], goHub.msg)
             /\ goHub'.pc = "range" => c \notin goHub'.todo
     /\ (goCrashed' /\ goHub.pc = "range")
          => \A c \in goHub.todo : goConn[c] # "OPEN"]_vars

\* C14: a connection that registers while a publish call is in progress is
\* not among the connections that call goes on to write to.
C14_LateChannelNotServed ==
  [][\A c \in GoConns :
       (GoWsConnect(c) /\ goHub'.pc = "range") => c \notin goHub'.todo]_vars

\* C15: a failed write removes only the connection written to and the publish
\* call goes on with the others; a disconnect removes only the disconnected
\* connection, and a publish call in progress still has every other
\* connection it had to serve, in a process that has not aborted.
C15_FailureIsolated ==
  [][\A c \in GoConns :
       /\ (GoHubWrite(c) /\ goConn[c] # "OPEN")
            => /\ goClients' = goClients \ {c}
               /\ goHub' = hubAfter(goHub.msg, goHub.todo \ {c})
       /\ GoWsDisconnect(c)
            => /\ goClients' = goClients \ {c}
               /\ \A d \in GoConns \ {c} :
                    (goHub.pc = "range" /\ d \in goHub.todo)
                    => /\ ~goCrashed'
                       /\ goHub'.pc = "range"
                       /\ d \in goHub'.todo]_vars

\* C16: a request that has persisted its mutation gets its answer, however
\* long a peer leaves its frames unread, unless the process has aborted.
C16_PersistedMutationAnswered ==
  \A h \in GoHandlers :
    (goPc[h] = "send") ~> (goPc[h] = "idle" \/ goCrashed)

\* C17: no connection is added to or deleted from the clients map by its own
\* goroutine while handleMessages is ranging over the map.
C17_ConnectionSetExclusive ==
  [][\A c \in GoConns :
       (GoWsConnect(c) \/ GoWsDisconnect(c)) => goHub.pc # "range"]_vars

\* C18: every frame a step sends has one of the three event types, and its
\* data is the whole stored order it reports, or the whole stored restaurant
\* for SUBSCRIPTION_UPDATE.
C18_EventsCarryFullEntity ==
  [][\A ws \in Sockets :
       Len(inbox'[ws]) > Len(inbox[ws])
       => LET e == inbox'[ws][Len(inbox'[ws])] IN
          /\ e.type \in {"NEW_ORDER", "ORDER_STATUS_UPDATE", "SUBSCRIPTION_UPDATE"}
          /\ e.type \in {"NEW_ORDER", "ORDER_STATUS_UPDATE"}
               => \E id \in DOMAIN orders' : e.data = orders'[id]
          /\ e.type = "SUBSCRIPTION_UPDATE"
               => \E id \in DOMAIN restaurants' : e.data = restaurants'[id]]_vars

\* C19: a restaurant that is inactive, or whose subscription end date is
\* present and before now, is counted as expired by the super-admin stats and
\* shown as expired by the test-subscription page.
C19_ExpiredReported ==
  /\ res.op = "GET /api/super-admin/stats"
       => Cardinality({id \in DOMAIN restaurants : EffectivelyExpired(restaurants[id])})
            <= res.data.expiredSubscriptions
  /\ (res.op = "test-subscription" /\ EffectivelyExpired(restaurants[1]))
       => res.status \in {"expired", "suspended/expired"}

\* C20: after an activate answered 200 the restaurant is active by the
\* definition of the specification, by the counters of the super-admin stats
\* and by the test-subscription page, whatever its state was before.
C20_ActivateYieldsActive ==
  [][\A id \in RestaurantIds :
       (PatchSubscription(id, "activate") /\ res'.code = 200)
       => /\ ~EffectivelyExpired(restaurants'[id])
          /\ statsSubscriptionClass(restaurants'[id]) = "active"
          /\ getSubscriptionStatus(restaurants'[id]) = "active"]_vars

\* An activate has just been answered for a restaurant that expire_trial had
\* marked expired.
C20_Witness ==
  /\ res.op = "PATCH /api/super-admin/restaurants/:id/subscription"
  /\ res.code = 200
  /\ res.data.isActive
  /\ res.data.planType = "expired"
  /\ res.data.subscriptionEndDate = now + 365 * Day

\* C21: a subscription action or an upgrade answered 200 stores the
\* restaurant it answers with and sends exactly one SUBSCRIPTION_UPDATE frame
\* to every registered open socket.
C21_AdminActionPersistsAndEmits ==
  [][\A id \in RestaurantIds :
       ( /\ res'.code = 200
         /\ \/ \E action \in SubscriptionActions : PatchSubscription(id, action)
            \/ \E planType \in {Undefined, "premium"} : PostUpgrade(id, planType) )
       => /\ restaurants'[id] = res'.data
          /\ \A ws \in clients :
               readyState[ws] = "OPEN"
               => /\ Len(inbox'[ws]) = Len(inbox[ws]) + 1
                  /\ inbox'[ws][Len(inbox'[ws])].type = "SUBSCRIPTION_UPDATE"]_vars

\* C22: right after a subscription action or an upgrade answered 200, the
\* same action applied again at the same instant would store the restaurant
\* exactly as it is now stored.
C22_AdminActionIdempotent ==
  [][\A id \in RestaurantIds :
       /\ \A action \in SubscriptionActions :
            (PatchSubscription(id, action) /\ res'.code = 200)
            => updateRestaurant(restaurants'[id], subscriptionUpdateData(action))
                 = restaurants'[id]
       /\ \A planType \in {Undefined, "premium"} :
            (PostUpgrade(id, planType) /\ res'.code = 200)
            => updateRestaurant(restaurants'[id],
                 [planType |-> IF planType \in {"", Undefined} THEN "premium" ELSE planType,
                  subscriptionEndDate |-> now + MonthDays * Day,
                  isActive |-> TRUE])
                 = restaurants'[id]]_vars

\* extend_trial has just been answered after the clock has moved: the stored
\* restaurant is the one answered, its end date is the one the action writes
\* and the frame of the action is waiting on a socket.
C22_Witness ==
  /\ res.op = "PATCH /api/super-admin/restaurants/:id/subscription"
  /\ res.code = 200
  /\ now > 0
  /\ \E id \in RestaurantIds :
       /\ restaurants[id] = res.data
       /\ restaurants[id].subscriptionEndDate = now + 30 * Day
  /\ \E ws \in clients :
       /\ inbox[ws] # << >>
       /\ inbox[ws][Len(inbox[ws])].data.action = "extend_trial"

\* The class a shown label stands for: expired, trial or active.
LabelClass(label) ==
  CASE label \in {"expired", "suspended/expired"} -> "expired"
    [] label \in {"days left", "d left", "trial"} -> "trial"
    [] OTHER -> label

\* C23: for every stored restaurant, the super-admin stats, the
\* test-subscription page and the super-admin dashboard put it in the same
\* class (expired, trial or active).
C23_StatusSameEverywhere ==
  \A id \in DOMAIN restaurants :
    /\ LabelClass(getSubscriptionStatus(restaurants[id]))
         = statsSubscriptionClass(restaurants[id])
    /\ LabelClass(getSubscriptionStatusSuperAdmin(restaurants[id]))
         = statsSubscriptionClass(restaurants[id])

RECURSIVE SumParsable(_)
SumParsable(os) ==
  IF os = << >> THEN 0
  ELSE (IF Head(os).total = NotANumber THEN 0 ELSE Head(os).total) + SumParsable(Tail(os))

\* C25: the daily stats are answered 200 with revenue equal to the sum of
\* those totals of the day's orders that parse as numbers.
C25_UnparsableTotalSkipped ==
  res.op = "GET /api/restaurant/:id/stats"
  => /\ res.code = 200
     /\ res.data.revenue = SumParsable(getTodayOrders(1))

\* C26: the popular items of an answer of getStats are entries of the day's
\* name-to-summed-quantity table, at most 3 and as many as the table allows,
\* larger quantities first and equal quantities in first-seen order, and no
\* entry left out has a larger quantity than one listed.
C26_PopularItemsTopThree ==
  \A h \in GoHandlers :
    goRes[h].op = "getStats"
    => LET p == goRes[h].data.popularItems
           counts == itemCounts(lineItems(goTodayOrders(1)))
           seen(name) == CHOOSE i \in 1..Len(counts) : counts[i].name = name
       IN /\ Len(p) = (IF Len(counts) < 3 THEN Len(counts) ELSE 3)
          /\ \A i \in 1..Len(p) : \E k \in 1..Len(counts) : p[i] = counts[k]
          /\ \A i, j \in 1..Len(p) :
               i < j => \/ p[i].count > p[j].count
                        \/ /\ p[i].count = p[j].count
                           /\ seen(p[i].name) < seen(p[j].name)
          /\ \A k \in 1..Len(counts) :
               (\A i \in 1..Len(p) : p[i] # counts[k])
               => \A i \in 1..Len(p) : p[i].count >= counts[k].count

\* The rows a list of the restaurant's orders has to hold.
ListedRows(restaurantId, status) ==
  {goOrders[id] : id \in {i \in DOMAIN goOrders :
     /\ goOrders[i].restaurantId = restaurantId
     /\ status \notin {"", Undefined} => goOrders[i].status = status}}

\* A sequence that holds exactly the given rows, each once, newest first.
NewestFirst(list, rows) ==
  /\ Len(list) = Cardinality(rows)
  /\ {list[i] : i \in 1..Len(list)} = rows
  /\ \A i, j \in 1..Len(list) : i < j => list[i].createdAt >= list[j].createdAt

\* C27: a list answers with exactly the restaurant's orders, of the status
\* asked when one is given, newest first, and changes no stored order and
\* sends no frame.
C27_ListNewestFirstReadOnly ==
  [][\A id \in RestaurantIds :
       /\ \A status \in {"", "pending"} :
            GoGetOrders("h2", id, status)
            => /\ NewestFirst(goRes'["h2"].data, ListedRows(id, status))
               /\ UNCHANGED << goOrders, goInbox, goHub >>
       /\ \A status \in {Undefined, "pending"} :
            DbGetOrders(id, status)
            => /\ NewestFirst(res'.data, ListedRows(id, status))
               /\ UNCHANGED << goOrders, goInbox, goHub, orders, inbox >>]_vars

\* C28: a status change asked through an admin order card never leaves the
\* order at a status behind the one it had.
C28_CardsNeverMoveBackward ==
  [][\A a \in AdminClients, id \in 1..MaxOrders :
       AdminCardAction(a, id)
       => StatusRank(orders'[id].status) >= StatusRank(orders[id].status)]_vars

\* OrderProgress, useWebSocket handler: whether a frame makes the component
\* tracking orderNumber mark a new update and refetch its order.
OrderProgressRecognises(message, orderNumber) ==
  message.type = "orderStatusUpdate" /\ message.data.orderNumber = orderNumber

\* C29: every status-update frame a server has sent, under the type name that
\* server gives it, is recognised by an OrderProgress component that tracks
\* the order number the frame carries.
C29_StatusUpdateRecognised ==
  /\ \A ws \in Sockets : \A i \in 1..Len(inbox[ws]) :
       inbox[ws][i].type = "ORDER_STATUS_UPDATE"
       => OrderProgressRecognises(inbox[ws][i], inbox[ws][i].data.orderNumber)
  /\ \A c \in GoConns : \A i \in 1..Len(goInbox[c]) :
       goInbox[c][i].type = "orderStatusUpdate"
       => OrderProgressRecognises(goInbox[c][i], goInbox[c][i].data.orderNumber)

\* The queue new is the queue old with one frame put behind its frames.
QueuedBehind(old, new) ==
  Len(new) = Len(old) + 1 /\ SubSeq(new, 1, Len(old)) = old

\* C30: a channel receives events in the order of their publication: whatever
\* changes the frames a channel has still to read either puts the frame being
\* published behind all of them or hands the oldest of them to the reader,
\* and the Go hub takes the next event only when it is through with the one
\* before.
C30_ChannelKeepsPublishOrder ==
  [][/\ \A ws \in Sockets :
          inbox'[ws] # inbox[ws]
          => \/ /\ res'.code \in {200, 201}
                /\ QueuedBehind(inbox[ws], inbox'[ws])
                /\ inbox'[ws][Len(inbox'[ws])].data = res'.data
             \/ /\ WsReceive(ws)
                /\ inbox[ws] = << Head(inbox[ws]) >> \o inbox'[ws]
     /\ \A c \in GoConns :
          goInbox'[c] # goInbox[c]
          => \/ /\ goHub.pc = "range"
                /\ QueuedBehind(goInbox[c], goInbox'[c])
                /\ goInbox'[c][Len(goInbox'[c])] = goHub.msg
             \/ /\ GoWsReceive(c)
                /\ goInbox[c] = << Head(goInbox[c]) >> \o goInbox'[c]
     /\ (goHub.pc = "range" /\ goHub'.pc = "range") => goHub'.msg = goHub.msg]_vars

\* Two events wait on a slow Node channel, the order placed first ahead, and
\* two on a slow Go channel, where the order created second was published
\* first and is ahead.
C30_Witness ==
  /\ Len(inbox["ws2"]) = 2
  /\ inbox["ws2"][1].data.id < inbox["ws2"][2].data.id
  /\ Len(goInbox["c2"]) = 2
  /\ goInbox["c2"][1].data.id > goInbox["c2"][2].data.id
====
